---- MODULE Spec2Model ----
(***************************************************************************)
(* SSDHealthMonitor (src/ssdhealthmonitor.py): the monitor object, its     *)
(* three collectors, send_email_alert and run_full_check, as a state       *)
(* machine.  Strings the code inspects (device identifiers, sensor names,  *)
(* labels) are sequences of one-character strings; the float arithmetic of *)
(* get_disk_usage is IEEE-754 binary64, on bit sequences.                  *)
(***************************************************************************)
EXTENDS Integers, Sequences, FiniteSets, TLC

\* ------------------------------------------------------------------------
\* Bounds of the model
\* ------------------------------------------------------------------------
MaxAlerts == 2

\* ------------------------------------------------------------------------
\* binary64 arithmetic of "(usage.used / usage.total) * 100" and of
\* "percent_used > self.usage_threshold".
\* A positive float is [h, m, l, e]: its 53-bit significand is
\* M = h * 2^36 + m * 2^18 + l with 2^16 <= h < 2^17 and m, l < 2^18, and its
\* value is M * 2^(e - 52).  Zero has h = 0.  Operands stay below 2^13, so
\* that no intermediate product leaves the 32-bit integers.
\* ------------------------------------------------------------------------
B18 == 2^18

B17 == 2^17

B16 == 2^16

FZero == [h |-> 0, m |-> 0, l |-> 0, e |-> 0]

RECURSIVE Norm(_, _, _)
\* <<num, den, e>> with u/t = (num/den) * 2^e and 1 <= num/den < 2
Norm(u, t, e) ==
    IF u < t THEN Norm(2 * u, t, e - 1)
    ELSE IF u >= 2 * t THEN Norm(u, 2 * t, e + 1)
    ELSE <<u, t, e>>

\* the significand h,m,l with exponent e, one unit in the last place up if up
\* (the last step of round-to-nearest-even)
FRound(h, m, l, e, up) ==
    IF ~up THEN [h |-> h, m |-> m, l |-> l, e |-> e]
    ELSE IF l + 1 < B18 THEN [h |-> h, m |-> m, l |-> l + 1, e |-> e]
    ELSE IF m + 1 < B18 THEN [h |-> h, m |-> m + 1, l |-> 0, e |-> e]
    ELSE IF h + 1 < B17 THEN [h |-> h + 1, m |-> 0, l |-> 0, e |-> e]
    ELSE [h |-> B16, m |-> 0, l |-> 0, e |-> e + 1]

\* int / int, correctly rounded (Python's true division), t > 0
FDiv(u, t) ==
    IF u = 0 THEN FZero
    ELSE LET n   == Norm(u, t, 0)
             den == n[2]
             h   == (n[1] * B16) \div den
             r1  == (n[1] * B16) % den
             m   == (r1 * B18) \div den
             r2  == (r1 * B18) % den
             l   == (r2 * B18) \div den
             r3  == (r2 * B18) % den
         IN  FRound(h, m, l, n[3],
                    2 * r3 > den \/ (2 * r3 = den /\ l % 2 = 1))

\* x * 100, correctly rounded
FMul100(x) ==
    IF x.h = 0 THEN FZero
    ELSE LET pl == x.l * 100
             pm == x.m * 100 + (pl \div B18)
             ph == x.h * 100 + (pm \div B18)
             l1 == pl % B18
             m1 == pm % B18
             \* 2^22 <= ph < 2^24: the product has 59 or 60 bits
             s  == IF ph >= 2^23 THEN 7 ELSE 6
             d  == 2^s
             l2 == (l1 \div d) + (m1 % d) * (B18 \div d)
             m2 == (m1 \div d) + (ph % d) * (B18 \div d)
             dropped == l1 % d
         IN  FRound(ph \div d, m2, l2, x.e + s,
                    2 * dropped > d \/ (2 * dropped = d /\ l2 % 2 = 1))

RECURSIVE Log2(_)
Log2(n) == IF n <= 1 THEN 0 ELSE 1 + Log2(n \div 2)

\* float > int, as Python compares them (exactly); t < 2^17
FGreaterInt(x, t) ==
    IF t < 0 THEN TRUE
    ELSE IF x.h = 0 THEN FALSE
    ELSE IF t = 0 THEN TRUE
    ELSE LET te == Log2(t)
             ht == t * 2^(16 - te)
         IN  IF x.e # te THEN x.e > te
             ELSE x.h > ht \/ (x.h = ht /\ (x.m > 0 \/ x.l > 0))

\* ------------------------------------------------------------------------
\* Strings: str.lower, "in", endswith, ord/chr, f-string concatenation
\* ------------------------------------------------------------------------
UpperCase == <<"A", "B", "C", "D", "E", "F", "G", "H", "I", "J", "K", "L", "M",
               "N", "O", "P", "Q", "R", "S", "T", "U", "V", "W", "X", "Y", "Z">>

LowerCase == <<"a", "b", "c", "d", "e", "f", "g", "h", "i", "j", "k", "l", "m",
               "n", "o", "p", "q", "r", "s", "t", "u", "v", "w", "x", "y", "z">>

IsUpper(c) == \E i \in 1..26 : UpperCase[i] = c

IsLower(c) == \E i \in 1..26 : LowerCase[i] = c

\* ord(c) and chr(n), on the ASCII letters
Ord(c) ==
    IF IsUpper(c) THEN 64 + (CHOOSE i \in 1..26 : UpperCase[i] = c)
    ELSE 96 + (CHOOSE i \in 1..26 : LowerCase[i] = c)

Chr(n) == IF n \in 65..90 THEN UpperCase[n - 64] ELSE LowerCase[n - 96]

\* str.lower()
Lower(s) ==
    [i \in 1..Len(s) |->
        IF IsUpper(s[i]) THEN LowerCase[CHOOSE j \in 1..26 : UpperCase[j] = s[i]]
        ELSE s[i]]

\* keyword in s
Contains(s, keyword) ==
    \E i \in 1..(Len(s) - Len(keyword) + 1) :
        SubSeq(s, i, i + Len(keyword) - 1) = keyword

\* the keyword list of get_drive_temperatures
Keywords == { <<"n", "v", "m", "e">>, <<"s", "s", "d">>,
              <<"s", "a", "t", "a">>, <<"d", "r", "i", "v", "e">> }

\* any(keyword in sensor_name.lower() for keyword in [...])
IsStorageSensor(sensor_name) ==
    \E keyword \in Keywords : Contains(Lower(sensor_name), keyword)

\* f"{sensor_name}_{sensor.label}"
SensorKey(sensor_name, label) == sensor_name \o <<"_">> \o label

\* device.endswith(':')
EndsWithColon(device) == device # <<>> /\ device[Len(device)] = ":"

\* the device path run_full_check hands to check_smart_data
DevicePath(device) ==
    IF EndsWithColon(device)
    THEN <<"/", "d", "e", "v", "/", "s", "d">>
            \o <<Chr(Ord("a") + Ord(device[1]) - Ord("A"))>>
    ELSE device

\* ------------------------------------------------------------------------
\* Python dicts: sequences of <<key, value>> with distinct keys, in
\* insertion order
\* ------------------------------------------------------------------------
DictKeys(d) == [i \in 1..Len(d) |-> d[i][1]]

DictHas(d, k) == \E i \in 1..Len(d) : d[i][1] = k

DictGet(d, k) == d[CHOOSE i \in 1..Len(d) : d[i][1] = k][2]

\* d[k] = v
DictSet(d, k, v) ==
    IF DictHas(d, k)
    THEN [i \in 1..Len(d) |-> IF d[i][1] = k THEN <<k, v>> ELSE d[i]]
    ELSE Append(d, <<k, v>>)

\* ------------------------------------------------------------------------
\* What the host answers: psutil.disk_partitions / disk_usage,
\* psutil.sensors_temperatures, the smartctl subprocess, the SMTP server
\* ------------------------------------------------------------------------
SDA == <<"/", "d", "e", "v", "/", "s", "d", "a">>

SDB == <<"/", "d", "e", "v", "/", "s", "d", "b">>

\* a partition of the host: partition.device and partition.mountpoint
Part(device, mountpoint) == [device |-> device, mountpoint |-> mountpoint]

\* a sensor group of the host: its name and the labels of its sensors
Group(name, labels) == [name |-> name, labels |-> labels]

\* The hosts the monitor runs on: the partitions psutil lists, whether psutil
\* has sensors_temperatures here, and the sensor groups it lists.
\*   a server with two disks and no sensors; a machine with one disk and two
\*   unlabelled storage sensors in one group; a Windows machine with two
\*   drive letters and no sensor support; a diskless machine with a CPU
\*   sensor and two labelled storage sensors
Hosts ==
    { [partitions |-> <<Part(SDA, <<"/">>), Part(SDB, <<"/", "m">>)>>,
       sensor_support |-> TRUE, groups |-> <<>>],
      [partitions |-> <<Part(SDA, <<"/">>)>>,
       sensor_support |-> TRUE,
       groups |-> <<Group(<<"N", "V", "M", "e">>, << <<>>, <<>> >>)>>],
      [partitions |-> <<Part(<<"C", ":">>, <<"C", ":", "\\">>),
                        Part(<<"D", ":">>, <<"D", ":", "\\">>)>>,
       sensor_support |-> FALSE, groups |-> <<>>],
      [partitions |-> <<>>,
       sensor_support |-> TRUE,
       groups |-> <<Group(<<"c", "p", "u">>, << <<>> >>),
                    Group(<<"s", "a", "t", "a">>, << <<"a">>, <<"b">> >>)>>] }

\* psutil.disk_usage(mountpoint): a PermissionError, another OSError, or
\* (used, total) in GiB, so that round(x / 1024**3, 2) is x
UsageOutcomes ==
    { [kind |-> "PermissionError", used |-> 0, total |-> 0],
      [kind |-> "OSError", used |-> 0, total |-> 0],
      [kind |-> "ok", used |-> 0, total |-> 0],
      [kind |-> "ok", used |-> 11, total |-> 20],
      [kind |-> "ok", used |-> 19, total |-> 20] }

\* psutil.disk_partitions() with what disk_usage will answer for each entry
PartitionLists(h) ==
    { [i \in 1..Len(h.partitions) |->
          [device |-> h.partitions[i].device,
           mountpoint |-> h.partitions[i].mountpoint,
           usage |-> f[i]]] :
      f \in [1..Len(h.partitions) -> UsageOutcomes] }

\* sensor.current
Currents == {60, 80}

\* the readings of one group: one current per label
Readings(labels, f) ==
    [i \in 1..Len(labels) |-> [label |-> labels[i], current |-> f[i]]]

RECURSIVE GroupOutcomes(_, _)
\* the items of the sensors dict from group i on, with every choice of currents
GroupOutcomes(groups, i) ==
    IF i > Len(groups) THEN { <<>> }
    ELSE { <<[name |-> groups[i].name,
              readings |-> Readings(groups[i].labels, f)]>> \o rest :
           f \in [1..Len(groups[i].labels) -> Currents],
           rest \in GroupOutcomes(groups, i + 1) }

\* psutil.sensors_temperatures(): an exception (no such call on this
\* platform), or the dict as the sequence of its items
SensorOutcomes(h) ==
    IF ~h.sensor_support THEN { [kind |-> "error", groups |-> <<>>] }
    ELSE { [kind |-> "ok", groups |-> g] : g \in GroupOutcomes(h.groups, 1) }

\* the JSON documents smartctl prints
Payloads(drive_path) ==
    { [device |-> drive_path],
      [device |-> drive_path, smart_status |-> [passed |-> TRUE]],
      [device |-> drive_path, smart_status |-> [passed |-> FALSE]],
      [device |-> drive_path, smart_status |-> <<>>] }

ToolFailures == {"FileNotFoundError", "TimeoutExpired", "returncode", "JSONDecodeError"}

\* subprocess.run + json.loads for one device
SmartOutcomes(drive_path) ==
    { [kind |-> k, payload |-> <<>>] : k \in ToolFailures }
    \cup { [kind |-> "ok", payload |-> p] : p \in Payloads(drive_path) }

\* the drive paths the monitor's user asks check_smart_data about
DrivePaths == {SDA}

\* constructor arguments
TempThresholds == {70}

UsageThresholds == {55, 90, 150}

\* ------------------------------------------------------------------------
\* The collectors, as functions of what the host answers
\* ------------------------------------------------------------------------
\* the alert strings, by the template that formats them and the values put in
\* (line 71: the device and the threshold; the percentage text is not kept)
UsageAlert(device, threshold) ==
    [kind |-> "usage", subject |-> device, detail |-> <<threshold>>]

\* line 110
TempAlert(sensor_name, temp, threshold) ==
    [kind |-> "temperature", subject |-> sensor_name, detail |-> <<temp, threshold>>]

\* line 150
SmartAlert(drive_path) ==
    [kind |-> "smart", subject |-> drive_path, detail |-> <<>>]

\* percent_used > self.usage_threshold, percent_used = (used / total) * 100
UsageExceeds(usage, threshold) ==
    FGreaterInt(FMul100(FDiv(usage.used, usage.total)), threshold)

\* the dict entry of one partition (the rounded percent_used is not kept)
UsageEntry(partition) ==
    [mountpoint |-> partition.mountpoint,
     total_gb |-> partition.usage.total,
     used_gb |-> partition.usage.used,
     free_gb |-> partition.usage.total - partition.usage.used]

RECURSIVE UsageLoop(_, _, _, _, _)
\* the for loop of get_disk_usage from partition i on
UsageLoop(parts, i, du, al, threshold) ==
    IF i > Len(parts) THEN [raised |-> "none", disk_usage |-> du, alerts |-> al]
    ELSE IF parts[i].usage.kind = "PermissionError"
    THEN UsageLoop(parts, i + 1, du, al, threshold)
    ELSE IF parts[i].usage.kind = "OSError"
    THEN [raised |-> "OSError", disk_usage |-> <<>>, alerts |-> al]
    ELSE IF parts[i].usage.total = 0
    THEN [raised |-> "ZeroDivisionError", disk_usage |-> <<>>, alerts |-> al]
    ELSE UsageLoop(parts, i + 1,
                   DictSet(du, parts[i].device, UsageEntry(parts[i])),
                   IF UsageExceeds(parts[i].usage, threshold)
                   THEN Append(al, UsageAlert(parts[i].device, threshold))
                   ELSE al,
                   threshold)

\* get_disk_usage: the exception that leaves it ("none": it returns), the
\* dict it returns and self.alerts afterwards
GetDiskUsage(parts, al, threshold) == UsageLoop(parts, 1, <<>>, al, threshold)

RECURSIVE ReadingLoop(_, _, _, _, _, _)
\* the inner loop of get_drive_temperatures
ReadingLoop(sensor_name, sensor_list, i, temps, al, threshold) ==
    IF i > Len(sensor_list) THEN [temperatures |-> temps, alerts |-> al]
    ELSE ReadingLoop(sensor_name, sensor_list, i + 1,
                     DictSet(temps, SensorKey(sensor_name, sensor_list[i].label),
                             sensor_list[i].current),
                     IF sensor_list[i].current > threshold
                     THEN Append(al, TempAlert(sensor_name, sensor_list[i].current,
                                               threshold))
                     ELSE al,
                     threshold)

RECURSIVE SensorLoop(_, _, _, _, _)
\* the outer loop of get_drive_temperatures
SensorLoop(groups, i, temps, al, threshold) ==
    IF i > Len(groups) THEN [temperatures |-> temps, alerts |-> al]
    ELSE IF IsStorageSensor(groups[i].name)
    THEN LET r == ReadingLoop(groups[i].name, groups[i].readings, 1, temps, al,
                              threshold)
         IN  SensorLoop(groups, i + 1, r.temperatures, r.alerts, threshold)
    ELSE SensorLoop(groups, i + 1, temps, al, threshold)

\* get_drive_temperatures: the dict it returns and self.alerts afterwards
GetDriveTemperatures(outcome, al, threshold) ==
    IF outcome.kind = "error" \/ outcome.groups = <<>>
    THEN [temperatures |-> <<>>, alerts |-> al]
    ELSE SensorLoop(outcome.groups, 1, <<>>, al, threshold)

\* check_smart_data with a tool failure taken for a failing drive
CheckSmartDataFlagsToolFailure(drive_path, outcome, al) ==
    IF outcome.kind # "ok"
    THEN [result |-> <<>>, alerts |-> Append(al, SmartAlert(drive_path))]
    ELSE IF "smart_status" \notin DOMAIN outcome.payload
    THEN [result |-> outcome.payload, alerts |-> al]
    ELSE IF "passed" \notin DOMAIN outcome.payload.smart_status
    THEN [result |-> <<>>, alerts |-> al]
    ELSE IF outcome.payload.smart_status.passed
    THEN [result |-> outcome.payload, alerts |-> al]
    ELSE [result |-> outcome.payload, alerts |-> Append(al, SmartAlert(drive_path))]

\* check_smart_data with the test of the health flag inverted
CheckSmartDataInvertedFlag(drive_path, outcome, al) ==
    IF outcome.kind # "ok" THEN [result |-> <<>>, alerts |-> al]
    ELSE IF "smart_status" \notin DOMAIN outcome.payload
    THEN [result |-> outcome.payload, alerts |-> al]
    ELSE IF "passed" \notin DOMAIN outcome.payload.smart_status
    THEN [result |-> <<>>, alerts |-> al]
    ELSE IF ~outcome.payload.smart_status.passed
    THEN [result |-> outcome.payload, alerts |-> al]
    ELSE [result |-> outcome.payload, alerts |-> Append(al, SmartAlert(drive_path))]

\* check_smart_data: the dict it returns and self.alerts afterwards
CheckSmartData(drive_path, outcome, al) ==
    IF outcome.kind # "ok" THEN [result |-> <<>>, alerts |-> al]
    ELSE IF "smart_status" \notin DOMAIN outcome.payload
    THEN [result |-> outcome.payload, alerts |-> al]
    ELSE IF "passed" \notin DOMAIN outcome.payload.smart_status
    THEN [result |-> <<>>, alerts |-> al]
    ELSE IF outcome.payload.smart_status.passed
    THEN [result |-> outcome.payload, alerts |-> al]
    ELSE [result |-> outcome.payload, alerts |-> Append(al, SmartAlert(drive_path))]

\* 'healthy' with the comparison off by one
HealthyOffByOne(al) == Len(al) <= 1

\* 'healthy': len(self.alerts) == 0
Healthy(al) == Len(al) = 0

\* ------------------------------------------------------------------------
\* State
\* ------------------------------------------------------------------------
VARIABLES
    pc,               \* "new": before __init__; "idle": between calls;
                      \* "temps", "smart": inside run_full_check, before line
                      \* 229 and in the loop of line 233; "raised": an
                      \* exception left the monitor (main has no handler)
    host,             \* the machine
    temp_threshold,   \* self.temp_threshold
    usage_threshold,  \* self.usage_threshold
    alerts,           \* the list object self.alerts names
    results,          \* main's results: the report the caller holds, if any;
                      \* the next run's report replaces it (line 275)
    raised,           \* the exception that left the monitor, and from where
    disk_usage,       \* run_full_check's local
    temperatures,     \* run_full_check's local
    smart_data,       \* run_full_check's local
    todo,             \* what is left of the iteration over disk_usage.keys()
    sensors,          \* what psutil answered to the run's get_drive_temperatures
    proc              \* what smartctl answered to the run's latest check

vars == <<pc, host, temp_threshold, usage_threshold, alerts, results,
          raised, disk_usage, temperatures, smart_data, todo, sensors, proc>>

\* the report's 'alerts' is the list object itself, not a copy of it
AlertsRef == "self.alerts"

\* the list a reference names, now
ListOf(ref) == alerts

NoSensors == [kind |-> "none", groups |-> <<>>]

NoProc == [device |-> <<>>, drive_path |-> <<>>, kind |-> "none", payload |-> <<>>]

NotRaised == [op |-> "none", exc |-> "none"]

locals == <<disk_usage, temperatures, smart_data, todo, sensors, proc>>

Init ==
    /\ pc = "new"
    /\ host \in Hosts
    /\ temp_threshold = 0
    /\ usage_threshold = 0
    /\ alerts = <<>>
    /\ results = <<>>
    /\ raised = NotRaised
    /\ disk_usage = <<>>
    /\ temperatures = <<>>
    /\ smart_data = <<>>
    /\ todo = <<>>
    /\ sensors = NoSensors
    /\ proc = NoProc

\* ------------------------------------------------------------------------
\* Operations
\* ------------------------------------------------------------------------
\* SSDHealthMonitor(temp_threshold, usage_threshold)
Construct ==
    /\ pc = "new"
    /\ \E tt \in TempThresholds, ut \in UsageThresholds :
          /\ temp_threshold' = tt
          /\ usage_threshold' = ut
    /\ alerts' = <<>>
    /\ pc' = "idle"
    /\ UNCHANGED <<host, results, raised, locals>>

\* monitor.get_disk_usage(), called by the monitor's user
CallGetDiskUsage ==
    /\ pc = "idle"
    /\ \E parts \in PartitionLists(host) :
          LET r == GetDiskUsage(parts, alerts, usage_threshold)
          IN  /\ Len(r.alerts) <= MaxAlerts
              /\ alerts' = r.alerts
              /\ IF r.raised = "none"
                 THEN pc' = "idle" /\ raised' = raised
                 ELSE /\ pc' = "raised"
                      /\ raised' = [op |-> "get_disk_usage", exc |-> r.raised]
    /\ UNCHANGED <<host, temp_threshold, usage_threshold, results, locals>>

\* monitor.get_drive_temperatures(), called by the monitor's user
CallGetDriveTemperatures ==
    /\ pc = "idle"
    /\ \E outcome \in SensorOutcomes(host) :
          LET r == GetDriveTemperatures(outcome, alerts, temp_threshold)
          IN  /\ Len(r.alerts) <= MaxAlerts
              /\ alerts' = r.alerts
    /\ UNCHANGED <<pc, host, temp_threshold, usage_threshold, results, raised, locals>>

\* monitor.check_smart_data(drive_path), called by the monitor's user
CallCheckSmartData ==
    /\ pc = "idle"
    /\ \E drive_path \in DrivePaths :
       \E outcome \in SmartOutcomes(drive_path) :
          LET r == CheckSmartData(drive_path, outcome, alerts)
          IN  /\ Len(r.alerts) <= MaxAlerts
              /\ alerts' = r.alerts
    /\ UNCHANGED <<pc, host, temp_threshold, usage_threshold, results, raised, locals>>

\* monitor.send_email_alert(...): nothing to send, or the message is built
\* from a copy of the alerts and handed to the SMTP server, whose failure is
\* caught (line 214); the monitor is left as it was
SendEmailAlert ==
    /\ pc = "idle"
    /\ UNCHANGED vars

\* run_full_check, line 228: disk_usage = self.get_disk_usage()
RunDiskUsage ==
    /\ pc = "idle"
    /\ \E parts \in PartitionLists(host) :
          LET r == GetDiskUsage(parts, alerts, usage_threshold)
          IN  /\ Len(r.alerts) <= MaxAlerts
              /\ alerts' = r.alerts
              /\ disk_usage' = r.disk_usage
              /\ IF r.raised = "none"
                 THEN pc' = "temps" /\ raised' = raised
                 ELSE /\ pc' = "raised"
                      /\ raised' = [op |-> "run_full_check", exc |-> r.raised]
    /\ UNCHANGED <<host, temp_threshold, usage_threshold, results,
                   temperatures, smart_data, todo, sensors, proc>>

\* run_full_check, lines 229-233: temperatures = self.get_drive_temperatures(),
\* smart_data = {}, and the iteration over disk_usage.keys() starts
RunTemperatures ==
    /\ pc = "temps"
    /\ \E outcome \in SensorOutcomes(host) :
          LET r == GetDriveTemperatures(outcome, alerts, temp_threshold)
          IN  /\ Len(r.alerts) <= MaxAlerts
              /\ alerts' = r.alerts
              /\ temperatures' = r.temperatures
              /\ sensors' = outcome
    /\ smart_data' = <<>>
    /\ todo' = DictKeys(disk_usage)
    /\ pc' = "smart"
    /\ UNCHANGED <<host, temp_threshold, usage_threshold, results,
                   raised, disk_usage, proc>>

\* run_full_check, lines 233-240: one turn of the loop
RunSmart ==
    /\ pc = "smart"
    /\ todo # <<>>
    /\ LET device == Head(todo)
           device_path == DevicePath(device)
       IN  \E outcome \in SmartOutcomes(device_path) :
              LET r == CheckSmartData(device_path, outcome, alerts)
              IN  /\ Len(r.alerts) <= MaxAlerts
                  /\ alerts' = r.alerts
                  /\ smart_data' = DictSet(smart_data, device, r.result)
                  /\ proc' = [device |-> device, drive_path |-> device_path,
                              kind |-> outcome.kind, payload |-> outcome.payload]
    /\ todo' = Tail(todo)
    /\ sensors' = NoSensors
    /\ UNCHANGED <<pc, host, temp_threshold, usage_threshold, results,
                   raised, disk_usage, temperatures>>

\* the dict of lines 254-261; the timestamp is not told from another
Report(du, temps, sd, al) ==
    [timestamp |-> "now", disk_usage |-> du, temperatures |-> temps,
     smart_data |-> sd, alerts |-> AlertsRef, healthy |-> Healthy(al)]

\* run_full_check, lines 242-261: the loop is over, the report is returned
RunReturn ==
    /\ pc = "smart"
    /\ todo = <<>>
    /\ results' = <<Report(disk_usage, temperatures, smart_data, alerts)>>
    /\ pc' = "idle"
    /\ disk_usage' = <<>>
    /\ temperatures' = <<>>
    /\ smart_data' = <<>>
    /\ sensors' = NoSensors
    /\ proc' = NoProc
    /\ UNCHANGED <<host, temp_threshold, usage_threshold, alerts,
                   raised, todo>>

Next ==
    \/ Construct
    \/ CallGetDiskUsage
    \/ CallGetDriveTemperatures
    \/ CallCheckSmartData
    \/ SendEmailAlert
    \/ RunDiskUsage
    \/ RunTemperatures
    \/ RunSmart
    \/ RunReturn

Spec == Init /\ [][Next]_vars

\* ------------------------------------------------------------------------
\* Properties
\* ------------------------------------------------------------------------
\* the step in which run_full_check returns its report
Returns == pc = "smart" /\ pc' = "idle"

\* one turn of the SMART loop of run_full_check
SmartTurn == pc = "smart" /\ pc' = "smart"

\* the payload carries the overall health flag
HasFlag(payload) ==
    /\ "smart_status" \in DOMAIN payload
    /\ "passed" \in DOMAIN payload.smart_status

\* C1: in the report run_full_check returns, healthy is true iff the alert
\* list of the report is empty, whatever was done with the monitor before.
C1_HealthyIffNoAlerts ==
    [][Returns => (results'[1].healthy <=> (ListOf(results'[1].alerts))' = <<>>)]_vars

\* C1 witness: a report is held that is not healthy and whose alert list
\* starts with an alert raised by a direct call or an earlier collector.
C1_Witness ==
    /\ results # <<>>
    /\ ~results[1].healthy
    /\ ListOf(results[1].alerts) # <<>>
    /\ ListOf(results[1].alerts)[1].kind = "smart"
    /\ results[1].smart_data = <<>>

\* C2: no monitor exists whose usage threshold is outside [0, 100]
\* (construction would have raised a ConfigurationError).
C2_UsageThresholdValidated ==
    pc # "new" => usage_threshold \in 0..100

RECURSIVE ExpectedUsageAlerts(_, _, _)
\* one usage alert for each entry of the usage map from entry i on whose
\* used/total*100 is strictly greater than the threshold
ExpectedUsageAlerts(du, i, threshold) ==
    IF i > Len(du) THEN <<>>
    ELSE (IF 100 * du[i][2].used_gb > threshold * du[i][2].total_gb
          THEN <<UsageAlert(du[i][1], threshold)>>
          ELSE <<>>) \o ExpectedUsageAlerts(du, i + 1, threshold)

\* C3: in a run on a fresh monitor the usage collector appends exactly one
\* usage alert for each collected volume whose utilization is strictly
\* greater than the threshold, and none for a volume at the threshold.
C3_StrictUsageThreshold ==
    [][(pc = "idle" /\ pc' = "temps" /\ alerts = <<>> /\ results = <<>>)
        => alerts' = ExpectedUsageAlerts(disk_usage', 1, usage_threshold)]_vars

\* C4: a volume of total capacity 0 makes the usage collector divide by
\* zero at no time.
C4_NoDivisionByZero ==
    raised.exc # "ZeroDivisionError"

\* C5: no failure inside a collector aborts run_full_check: no exception
\* leaves it.
C5_RunNeverAborted ==
    raised.op # "run_full_check"

\* C6: a SMART check that fails for a tool reason stores a verdict without a
\* pass/fail field, appends no alert and leaves the following devices to be
\* checked; the report has a verdict for every device of the usage map.
C6_ToolFailureIndeterminate ==
    [][/\ (SmartTurn /\ proc'.kind \in ToolFailures) =>
            /\ DictHas(smart_data', Head(todo))
            /\ "smart_status" \notin DOMAIN DictGet(smart_data', Head(todo))
            /\ alerts' = alerts
            /\ todo' = Tail(todo)
       /\ Returns => DictKeys(results'[1].smart_data) = DictKeys(results'[1].disk_usage)
      ]_vars

\* C6 witness: smartctl timed out for the first of two devices, which has a
\* verdict without a flag, no alert was appended and the second device is
\* still to be checked.
C6_Witness ==
    /\ pc = "smart"
    /\ proc.kind = "TimeoutExpired"
    /\ smart_data = << <<proc.device, <<>> >> >>
    /\ Len(todo) = 1
    /\ alerts = <<>>

\* C7: a successful check whose payload reports pass = false appends exactly
\* one SMART alert naming the device path and stores a verdict with pass =
\* false, which the report keeps; pass = true or no flag appends no alert.
C7_FailedDriveAlerted ==
    [][/\ (SmartTurn /\ proc'.kind = "ok" /\ HasFlag(proc'.payload)
                     /\ ~proc'.payload.smart_status.passed) =>
            /\ alerts' = Append(alerts, SmartAlert(DevicePath(Head(todo))))
            /\ HasFlag(DictGet(smart_data', Head(todo)))
            /\ ~DictGet(smart_data', Head(todo)).smart_status.passed
       /\ (SmartTurn /\ proc'.kind = "ok"
                     /\ (HasFlag(proc'.payload) => proc'.payload.smart_status.passed)) =>
            alerts' = alerts
       /\ Returns => results'[1].smart_data = smart_data
      ]_vars

\* C7 witness: the drive behind the letter C: failed its check and the alert
\* names /dev/sdc.
C7_Witness ==
    /\ pc = "smart"
    /\ proc.kind = "ok"
    /\ proc.device = <<"C", ":">>
    /\ HasFlag(proc.payload)
    /\ ~proc.payload.smart_status.passed
    /\ alerts = <<SmartAlert(<<"/", "d", "e", "v", "/", "s", "d", "c">>)>>

\* the place of a collector in the order of invocation
Rank(kind) == IF kind = "usage" THEN 1 ELSE IF kind = "temperature" THEN 2 ELSE 3

\* C8: in the alert list of the report run_full_check returns, usage alerts
\* come before temperature alerts and these before SMART alerts.
C8_AlertOrder ==
    [][Returns =>
        LET al == (ListOf(results'[1].alerts))'
        IN  \A i, j \in 1..Len(al) : i < j => Rank(al[i].kind) <= Rank(al[j].kind)]_vars

\* the report as its holder reads it
ReportView(r) ==
    [timestamp |-> r.timestamp, disk_usage |-> r.disk_usage,
     temperatures |-> r.temperatures, smart_data |-> r.smart_data,
     alerts |-> ListOf(r.alerts), healthy |-> r.healthy]

\* C9: while a report is held, no operation on the monitor changes any of
\* its fields.
C9_ReportImmutable ==
    [][(results # <<>> /\ ~Returns) => (ReportView(results[1]))' = ReportView(results[1])]_vars

RECURSIVE QualifyingReadings(_, _)
\* the number of readings of storage sensors in the sensors dict from item i on
QualifyingReadings(groups, i) ==
    IF i > Len(groups) THEN 0
    ELSE (IF IsStorageSensor(groups[i].name) THEN Len(groups[i].readings) ELSE 0)
         + QualifyingReadings(groups, i + 1)

\* C10: after a temperature collection the map has one entry for each
\* reading of a storage sensor.
C10_OneEntryPerSensor ==
    (pc = "smart" /\ sensors.kind = "ok")
        => Len(temperatures) = QualifyingReadings(sensors.groups, 1)
====
